---- MODULE Spec2Model ----
(***************************************************************************)
(* Model of the feedback backend's HTTP API (app/main.py,                  *)
(* app/api/endpoints.py, app/crud/crud.py): routing, dependency            *)
(* resolution (data-store session, bearer-token gate), the handlers and    *)
(* the exception handlers that build the response envelope.                *)
(*                                                                         *)
(* One request is followed from its arrival to its response:               *)
(*   Receive : routing, dependency resolution and parameter validation     *)
(*   Handle  : the endpoint function, its store queries, the response      *)
(* while the environment lets time pass (Tick) and removes user rows       *)
(* (DeleteUser).  SpecConcurrent follows two requests served side by     *)
(* side, each by a worker of its own (SlotReceive, SlotHandle, SlotReply). *)
(* app/core/security.py and app/core/database.py are not                   *)
(* part of the sources at hand; the token service and the session          *)
(* dependency are modelled from the specification's sections 4.2, 4.3, 5.  *)
(***************************************************************************)
EXTENDS Integers, Sequences, FiniteSets, TLC

\* ------------------------------------------------------------------ bounds
\* The clock counts ticks, TicksPerMinute of them to a minute, up to MaxTime.
TicksPerMinute == 2
MaxTime == 4
\* ACCESS_TOKEN_EXPIRE_MINUTES is read from the environment: 1..MaxTtl.
MaxTtl == 2
\* Submitted passwords are strings over PwChars of length 0..MaxPwLen.
MaxPwLen == 2

\* ------------------------------------------------------------------ values
PwChars == {"a", "b"}

RECURSIVE Strings(_)
Strings(n) ==
    IF n = 0 THEN {<<>>}
    ELSE Strings(n - 1) \cup
         {Append(s, c) : s \in {t \in Strings(n - 1) : Len(t) = n - 1}, c \in PwChars}

\* The empty string is what an absent form field reads as.
Passwords == Strings(MaxPwLen)

\* Usernames differ only in case, so that an exact match can be told apart.
Usernames == {"alice", "Alice"}

\* core/config.py: the server's signing secret, and some other secret
SECRET_KEY == "09d25e094faa6ca2556c818166b7a9563b93f7099f6f0f4caa6cf63b88e8d3e7"
OtherKey == "attacker"

\* A password column value.  kind "bcrypt": a well-formed bcrypt hash of pw
\* (salt and cost embedded); kind "garbage": text that is no bcrypt hash.
\* pad: the column value carries surrounding white space.
Hashed(pw, pad) == [kind |-> "bcrypt", pw |-> pw, pad |-> pad]
Garbage(pad) == [kind |-> "garbage", pw |-> <<>>, pad |-> pad]

\* A row of the users table (id and created_at play no part).
User(username, password) == [username |-> username, password |-> password]

\* Python's None where a User row is expected.
None == [username |-> "", password |-> Garbage(FALSE)]

\* The Authorization header: absent, not a token, or a signed token.
NoHeader == [kind |-> "none", sub |-> "", exp |-> 0, key |-> ""]
NotAToken == [kind |-> "garbage", sub |-> "", exp |-> 0, key |-> ""]
Token(sub, exp, key) == [kind |-> "jwt", sub |-> sub, exp |-> exp, key |-> key]

\* A query parameter: absent, or an integer (scores: 0 is 0.0 and 1 is 1.0),
\* or, for a score, the float "nan" parses to.
Absent == [given |-> FALSE, v |-> 0, nan |-> FALSE]
Val(n) == [given |-> TRUE, v |-> n, nan |-> FALSE]
NaN == [given |-> TRUE, v |-> 0, nan |-> TRUE]

\* Python's < and > on floats: False when an operand is NaN.
lt(a, b) == ~a.nan /\ ~b.nan /\ a.v < b.v
gt(a, b) == ~a.nan /\ ~b.nan /\ a.v > b.v

\* --------------------------------------------------------------- outcomes
\* What a Python call comes to: a returned value or a raised exception,
\* with the log lines written and the store queries executed on the way.
NoExc == [type |-> "", status_code |-> 0, detail |-> ""]

Ret(v, log, queries) ==
    [raised |-> FALSE, value |-> v, exc |-> NoExc, log |-> log, queries |-> queries]

Exc(e, log, queries) ==
    [raised |-> TRUE, value |-> None, exc |-> e, log |-> log, queries |-> queries]

\* fastapi.HTTPException, as the handlers and crud raise it
HTTPException(status_code, detail) ==
    [type |-> "fastapi.HTTPException", status_code |-> status_code, detail |-> detail]

\* starlette.exceptions.HTTPException, as the router raises it
StarletteHTTPException(status_code, detail) ==
    [type |-> "starlette.HTTPException", status_code |-> status_code, detail |-> detail]

RequestValidationError ==
    [type |-> "RequestValidationError", status_code |-> 0, detail |-> "field required"]

\* bcrypt's complaint about a hash it cannot parse
ValueError == [type |-> "ValueError", status_code |-> 0, detail |-> "Invalid salt"]

\* the driver's complaint when a query cannot be executed
OperationalError ==
    [type |-> "OperationalError", status_code |-> 0, detail |-> "connection refused"]

\* ------------------------------------------------------------------ bcrypt
\* str.strip() on the stored column value
strip(hashed) == [hashed EXCEPT !.pad = FALSE]

\* bcrypt.checkpw: ValueError on text that is no bcrypt hash; otherwise the
\* password is hashed with the salt embedded in `hashed` and the two hashes
\* are compared (a hash with white space around it equals no computed hash).
checkpw(password, hashed) ==
    IF hashed.kind = "garbage" THEN [raised |-> TRUE, value |-> FALSE]
    ELSE [raised |-> FALSE, value |-> (~hashed.pad /\ hashed.pw = password)]

\* -------------------------------------------------------------------- crud
\* A store query that was executed: which one, with what, and whether the
\* store answered (ok) or the execution raised.
Query(op, args, ok) == [op |-> op, args |-> args, ok |-> ok]

\* The rows a listing query selects (the log tables are not modelled).
Rows(op, args) == [rows |-> [op |-> op, args |-> args]]

lower(username) == IF username = "Alice" THEN "alice" ELSE username

\* a filter that ignores case: func.lower(User.username) == username.lower()
first_user_ilike(users, username) ==
    IF \E u \in users : lower(u.username) = lower(username)
    THEN CHOOSE u \in users : lower(u.username) = lower(username)
    ELSE None

\* db.query(User).filter(User.username == username).first()
first_user(users, username) ==
    IF \E u \in users : u.username = username
    THEN CHOOSE u \in users : u.username = username
    ELSE None

\* crud.get_user: the row with exactly this username or None; an exception
\* of the store is logged and raised again.
get_user(users, db_ok, username) ==
    LET q == Query("get_user", [username |-> username], db_ok)
    IN IF db_ok THEN Ret(first_user(users, username), <<>>, <<q>>)
       ELSE Exc(OperationalError, <<"ERROR Error in get_user">>, <<q>>)

\* an unknown user raised as 404 "User not found" instead of returned as None
authenticate_user_body_404(users, db_ok, username, password) ==
    LET g == get_user(users, db_ok, username)
        user == g.value
        c == checkpw(password, strip(user.password))
    IN IF g.raised THEN g
       ELSE IF user = None
       THEN Exc(HTTPException(404, "User not found"), g.log, g.queries)
       ELSE IF c.raised THEN Exc(ValueError, g.log, g.queries)
       ELSE IF ~c.value
       THEN Ret(None, g.log \o <<"WARNING Invalid password">>, g.queries)
       ELSE Ret(user, g.log, g.queries)

\* crud.authenticate_user, lines 27-53: the body of the outer try.
authenticate_user_body(users, db_ok, username, password) ==
    LET g == get_user(users, db_ok, username)
        user == g.value
        dbg == <<"DEBUG Stored password hash", "DEBUG Password, password hashed",
                 "DEBUG Compare password">>
        \* line 36: the debug statement calls checkpw outside the inner try
        c == checkpw(password, strip(user.password))
    IN IF g.raised THEN g
       ELSE IF user = None
       THEN Ret(None, g.log \o <<"WARNING User not found">>, g.queries)
       ELSE IF c.raised
       THEN Exc(ValueError, g.log \o dbg, g.queries)
       ELSE \* lines 38-53: the inner try
            LET is_valid == checkpw(password, strip(user.password))
                log == g.log \o dbg \o <<"DEBUG Is valid">>
            IN IF is_valid.raised
               THEN Exc(HTTPException(500, "Error validating password"),
                        log \o <<"ERROR bcrypt validation error">>, g.queries)
               ELSE IF ~is_valid.value
               THEN Ret(None, log \o <<"WARNING Invalid password">>, g.queries)
               ELSE Ret(user, log, g.queries)

\* authenticate_user saving the stored hash, stripped, back to the row of a
\* user it has authenticated (db.commit())
authenticate_user_saving(users, db_ok, username, password) ==
    LET b == authenticate_user_body(users, db_ok, username, password)
        save == Query("save_user",
                      [username |-> b.value.username,
                       row |-> [b.value EXCEPT !.password = strip(b.value.password)]], TRUE)
    IN IF b.raised
       THEN Exc(HTTPException(500, "Authentication error"),
                b.log \o <<"ERROR Authentication error">>, b.queries)
       ELSE IF b.value = None THEN b
       ELSE Ret(b.value, b.log, b.queries \o <<save>>)

\* crud.authenticate_user: `except Exception` around the body turns whatever
\* the body raised into HTTPException(500, "Authentication error").
authenticate_user(users, db_ok, username, password) ==
    LET b == authenticate_user_body(users, db_ok, username, password)
    IN IF b.raised
       THEN Exc(HTTPException(500, "Authentication error"),
                b.log \o <<"ERROR Authentication error">>, b.queries)
       ELSE b

\* crud.get_feedback_summary, get_qa_logs, get_low_similarity_queries,
\* get_no_result_summary: one query; an exception is logged and raised again.
listing_query(op, args, db_ok) ==
    LET q == Query(op, args, db_ok)
    IN IF db_ok THEN Ret(Rows(op, args), <<>>, <<q>>)
       ELSE Exc(OperationalError, <<"ERROR Error in " \o op>>, <<q>>)

crud_get_feedback_summary(db_ok, limit) ==
    listing_query("get_feedback_summary", [limit |-> limit], db_ok)

crud_get_qa_logs(db_ok, skip, limit) ==
    listing_query("get_qa_logs", [skip |-> skip, limit |-> limit], db_ok)

crud_get_low_similarity_queries(db_ok, skip, limit, min_score, max_score) ==
    listing_query("get_low_similarity_queries",
                  [skip |-> skip, limit |-> limit,
                   min_score |-> min_score, max_score |-> max_score], db_ok)

crud_get_no_result_summary(db_ok, limit) ==
    listing_query("get_no_result_summary", [limit |-> limit], db_ok)

\* The statements crud.py sends to the store: each is a db.query(...) that
\* ends in .first() or .all(), a read; there is no db.add, db.delete or
\* db.commit.
Reads ==
    {"get_user", "get_feedback_summary", "get_qa_logs",
     "get_low_similarity_queries", "get_no_result_summary"}

\* The users table after the store executed q: a read, and a statement the
\* store failed to execute, leave it as it is; any other statement saves
\* the row it carries in place of the row of that username.
execute(users_, q) ==
    IF q.op \in Reads \/ ~q.ok THEN users_
    ELSE {u \in users_ : u.username # q.args.username} \cup {q.args.row}

\* The users table after a request's statements, in their order.
RECURSIVE commit(_, _)
commit(users_, qs) ==
    IF qs = <<>> THEN users_ ELSE commit(execute(users_, Head(qs)), Tail(qs))

\* ----------------------------------------------------------- token service
\* Token Service.verify (specification 4.2, contract B).
verify(token, now_) ==
    IF token.kind # "jwt" THEN [ok |-> FALSE, failure |-> "malformed", subject |-> ""]
    ELSE IF token.key # SECRET_KEY
    THEN [ok |-> FALSE, failure |-> "bad_signature", subject |-> ""]
    ELSE IF now_ >= token.exp
    THEN [ok |-> FALSE, failure |-> "expired", subject |-> ""]
    ELSE [ok |-> TRUE, failure |-> "", subject |-> token.sub]

\* Token Service.issue (specification 4.2, contract A): expiry = now + ttl.
create_access_token(sub, expires_delta, now_) == Token(sub, now_ + expires_delta, SECRET_KEY)

\* schemas.TokenData
TokenData(username) == [username |-> username]

\* The bearer-token dependency (specification 4.3 and 7): a missing header
\* and every failure of verify are the same 401; the sub-case is logged.
get_current_user(auth, now_) ==
    LET v == verify(auth, now_)
    IN IF auth.kind = "none"
       THEN Exc(HTTPException(401, "Not authenticated"), <<>>, <<>>)
       ELSE IF ~v.ok
       THEN Exc(HTTPException(401, "Could not validate credentials"),
                <<"WARNING token " \o v.failure>>, <<>>)
       ELSE Ret(TokenData(v.subject), <<>>, <<>>)

\* ------------------------------------------------------------------ main.py
EmptyDict == [k \in {} |-> k]

error_response(status_code, message, details) ==
    IF DOMAIN details # {}
    THEN [success |-> FALSE,
          error |-> [code |-> status_code, message |-> message, details |-> details]]
    ELSE [success |-> FALSE, error |-> [code |-> status_code, message |-> message]]

Response(status_code, content, log) ==
    [status_code |-> status_code, content |-> content, log |-> log]

http_exception_handler(exc) ==
    Response(exc.status_code, error_response(exc.status_code, exc.detail, EmptyDict),
             <<(IF exc.status_code >= 500 THEN "ERROR"
                ELSE IF exc.status_code >= 400 THEN "WARNING" ELSE "INFO")
               \o " HTTP exception handler caught">>)

validation_exception_handler(exc) ==
    Response(422, error_response(422, "Validation Error", [errors |-> exc.detail]),
             <<"WARNING Validation error">>)

\* traceback.format_exc() of the exception being handled
format_exc(exc) == "Traceback (most recent call last): " \o exc.type \o ": " \o exc.detail

global_exception_handler(exc) ==
    Response(500,
             error_response(500, "Internal Server Errorddddd",
                            [traceback |-> format_exc(exc)]),
             <<"ERROR Global exception handler caught: " \o format_exc(exc)>>)

\* The handler FastAPI itself installs for starlette's HTTPException.
default_http_exception_handler(exc) ==
    Response(exc.status_code, [detail |-> exc.detail], <<>>)

\* The handler an exception reaches: the one registered for the first class
\* of the exception's MRO that has one.  main.py registers handlers for
\* fastapi.HTTPException, the two validation errors and Exception; FastAPI
\* keeps its own for starlette's HTTPException, the former's base class.
exception_handlers(exc) ==
    CASE exc.type = "fastapi.HTTPException" -> http_exception_handler(exc)
      [] exc.type = "starlette.HTTPException" -> default_http_exception_handler(exc)
      [] exc.type = "RequestValidationError" -> validation_exception_handler(exc)
      [] OTHER -> global_exception_handler(exc)

\* ------------------------------------------------------------- endpoints.py
\* A request to a path under /api/v1.  username and password are the form
\* fields of /login; q holds the query parameters of the listing endpoints
\* (typed: every given parameter parses as the number its endpoint declares).
Query0 == [typed |-> TRUE, skip |-> Absent, limit |-> Absent,
           min_score |-> Absent, max_score |-> Absent]

Request(method, path, auth, username, password, q) ==
    [method |-> method, path |-> path, auth |-> auth,
     username |-> username, password |-> password, q |-> q]

Param(p, default) == IF p.given THEN p.v ELSE default

success_response(data) == [success |-> TRUE, data |-> data]

\* timedelta(seconds=...) written for timedelta(minutes=...)
timedelta_seconds(minutes) == minutes

\* timedelta(minutes=...), in ticks of the clock
timedelta_minutes(minutes) == minutes * TicksPerMinute

\* GET /me answering from the token alone, without the `if not user` check
get_current_user_info_unchecked(current_user, users, db_ok) ==
    LET g == get_user(users, db_ok, current_user.username)
    IN IF g.raised THEN g
       ELSE Ret(success_response([username |-> current_user.username,
                                  is_authenticated |-> TRUE]), g.log, g.queries)

\* GET /me
get_current_user_info(current_user, users, db_ok) ==
    LET g == get_user(users, db_ok, current_user.username)
        user == g.value
    IN IF g.raised THEN g
       ELSE IF user = None
       THEN Exc(HTTPException(404, "User not found"), g.log, g.queries)
       ELSE Ret(success_response([username |-> user.username, is_authenticated |-> TRUE]),
                g.log, g.queries)

\* POST /logout
logout(current_user) ==
    Ret(success_response([message |-> "Successfully logged out",
                          username |-> current_user.username]), <<>>, <<>>)

\* POST /login
login(username, password, users, db_ok, now_, expire_minutes) ==
    LET a == authenticate_user(users, db_ok, username, password)
        user == a.value
        dbg == <<"DEBUG Login attempt">>
        access_token_expires == timedelta_minutes(expire_minutes)
        access_token == create_access_token(user.username, access_token_expires, now_)
    IN IF a.raised THEN Exc(a.exc, dbg \o a.log, a.queries)
       ELSE IF user = None
       THEN Exc(HTTPException(401, "Incorrect username or password"),
                dbg \o a.log \o <<"WARNING Authentication failed">>, a.queries)
       ELSE Ret(success_response([access_token |-> access_token, token_type |-> "bearer"]),
                dbg \o a.log \o <<"INFO User successfully logged in">>, a.queries)

BadRequest(detail) == Exc(HTTPException(400, detail), <<>>, <<>>)

\* GET /feedback/summary
get_feedback_summary(q, db_ok) ==
    LET limit == Param(q.limit, 10)
    IN IF limit < 1 \/ limit > 100 THEN BadRequest("Limit must be between 1 and 100")
       ELSE crud_get_feedback_summary(db_ok, limit)

\* GET /qa-logs (the search text only narrows the rows and is left out)
get_qa_logs(q, db_ok) ==
    LET skip == Param(q.skip, 0)
        limit == Param(q.limit, 100)
    IN IF skip < 0 THEN BadRequest("Skip value cannot be negative")
       ELSE IF limit < 1 \/ limit > 100 THEN BadRequest("Limit must be between 1 and 100")
       ELSE crud_get_qa_logs(db_ok, skip, limit)

\* GET /low-similarity
get_low_similarity_queries(q, db_ok) ==
    LET skip == Param(q.skip, 0)
        limit == Param(q.limit, 100)
        min_score == q.min_score
        max_score == q.max_score
    IN IF skip < 0 THEN BadRequest("Skip value cannot be negative")
       ELSE IF limit < 1 \/ limit > 100 THEN BadRequest("Limit must be between 1 and 100")
       ELSE IF min_score.given /\ (lt(min_score, Val(0)) \/ gt(min_score, Val(1)))
       THEN BadRequest("Minimum score must be between 0 and 1")
       ELSE IF max_score.given /\ (lt(max_score, Val(0)) \/ gt(max_score, Val(1)))
       THEN BadRequest("Maximum score must be between 0 and 1")
       ELSE IF min_score.given /\ max_score.given /\ gt(min_score, max_score)
       THEN BadRequest("Minimum score cannot be greater than maximum score")
       ELSE crud_get_low_similarity_queries(db_ok, skip, limit, min_score, max_score)

\* GET /no-result/summary
get_no_result_summary(q, db_ok) ==
    LET limit == Param(q.limit, 10)
    IN IF limit < 1 \/ limit > 100 THEN BadRequest("Limit must be between 1 and 100")
       ELSE crud_get_no_result_summary(db_ok, limit)

\* The router's table: the @router decorators.
Routes ==
    { <<"GET", "/me", "get_current_user_info">>,
      <<"POST", "/logout", "logout">>,
      <<"POST", "/login", "login">>,
      <<"GET", "/feedback/summary", "get_feedback_summary">>,
      <<"GET", "/qa-logs", "get_qa_logs">>,
      <<"GET", "/low-similarity", "get_low_similarity_queries">>,
      <<"GET", "/no-result/summary", "get_no_result_summary">> }

\* get_qa_logs declared without its Depends(get_current_user)
Dependencies_qa_logs_open(endpoint) ==
    CASE endpoint = "get_current_user_info" -> <<"get_current_user", "get_db">>
      [] endpoint = "logout" -> <<"get_current_user">>
      [] endpoint = "login" -> <<"get_db">>
      [] endpoint = "get_qa_logs" -> <<"get_db">>
      [] OTHER -> <<"get_db", "get_current_user">>

\* logout declared without its Depends(get_current_user)
Dependencies_logout_open(endpoint) ==
    CASE endpoint = "get_current_user_info" -> <<"get_current_user", "get_db">>
      [] endpoint = "logout" -> <<>>
      [] endpoint = "login" -> <<"get_db">>
      [] OTHER -> <<"get_db", "get_current_user">>

\* The dependencies each endpoint function declares, in parameter order.
Dependencies(endpoint) ==
    CASE endpoint = "get_current_user_info" -> <<"get_current_user", "get_db">>
      [] endpoint = "logout" -> <<"get_current_user">>
      [] endpoint = "login" -> <<"get_db">>
      [] OTHER -> <<"get_db", "get_current_user">>

\* The endpoint function called with its resolved arguments.
call_endpoint(endpoint, r, current_user, users, db_ok, now_, expire_minutes) ==
    CASE endpoint = "get_current_user_info" -> get_current_user_info(current_user, users, db_ok)
      [] endpoint = "logout" -> logout(current_user)
      [] endpoint = "login" -> login(r.username, r.password, users, db_ok, now_, expire_minutes)
      [] endpoint = "get_feedback_summary" -> get_feedback_summary(r.q, db_ok)
      [] endpoint = "get_qa_logs" -> get_qa_logs(r.q, db_ok)
      [] endpoint = "get_low_similarity_queries" -> get_low_similarity_queries(r.q, db_ok)
      [] OTHER -> get_no_result_summary(r.q, db_ok)

\* --------------------------------------------------------------- framework
\* Starlette's router: the endpoint of the first route whose path and method
\* match; a path that matches under another method only is 405, no path 404.
match_route(method, path) ==
    IF \E rt \in Routes : rt[1] = method /\ rt[2] = path
    THEN Ret((CHOOSE rt \in Routes : rt[1] = method /\ rt[2] = path)[3], <<>>, <<>>)
    ELSE IF \E rt \in Routes : rt[2] = path
    THEN Exc(StarletteHTTPException(405, "Method Not Allowed"), <<>>, <<>>)
    ELSE Exc(StarletteHTTPException(404, "Not Found"), <<>>, <<>>)

Index(seq, x) == IF \E i \in DOMAIN seq : seq[i] = x
                 THEN CHOOSE i \in DOMAIN seq : seq[i] = x ELSE 0

\* Form(...) and the typed query parameters, validated by FastAPI.
params_valid(endpoint, r) ==
    IF endpoint = "login" THEN r.username # "" /\ r.password # <<>>
    ELSE r.q.typed

NoTokenData == TokenData("")

\* get_db with db.close() after the yield, outside a try/finally: skipped
\* when the request ends in an exception
get_db_exit_no_finally(session_, raised) ==
    IF session_ = "open" /\ ~raised THEN "closed" ELSE session_

\* get_db, after its yield: `finally: db.close()`, run when the request
\* ends, however it ends.
get_db_exit(session_, raised) ==
    IF session_ = "open" THEN "closed" ELSE session_

\* FastAPI's solve_dependencies: the declared dependencies are called in
\* order and an HTTPException of one ends the resolution at once; only then
\* are the request's own parameters validated.  A session get_db has opened
\* is closed again when the request ends here.
solve_dependencies(endpoint, r, now_) ==
    LET deps == Dependencies(endpoint)
        iAuth == Index(deps, "get_current_user")
        iDb == Index(deps, "get_db")
        cu == get_current_user(r.auth, now_)
        rejected == iAuth > 0 /\ cu.raised
    IN [raised |-> rejected \/ ~params_valid(endpoint, r),
        exc |-> IF rejected THEN cu.exc ELSE RequestValidationError,
        log |-> IF iAuth > 0 THEN cu.log ELSE <<>>,
        session_opened |-> iDb > 0 /\ (rejected => iDb < iAuth),
        current_user |-> IF iAuth > 0 /\ ~cu.raised THEN cu.value ELSE NoTokenData]

\* ------------------------------------------------------------------- state
VARIABLES
    users,          \* the users table: a set of User rows, one per username
    now,            \* the clock
    ACCESS_TOKEN_EXPIRE_MINUTES,    \* core/config.py: settings, read at start
    client,         \* the token the client holds, when and as whom it got it
    phase,          \* of the request in hand: "idle", "handler", "done"
    request,        \* the request in hand
    endpoint,       \* the endpoint function it was routed to ("" if none)
    current_user,   \* the TokenData the gate resolved for it
    session,        \* its data-store session: "none", "open", "closed"
    response,       \* its response, once phase = "done"
    queries,        \* the store queries executed for it
    log,            \* the log lines written for it
    slots           \* the requests served side by side, one per worker

vars == <<users, now, ACCESS_TOKEN_EXPIRE_MINUTES, client, phase, request, endpoint,
          current_user, session, response, queries, log, slots>>

\* The rows the users table may hold.
UserRows ==
    { User("alice", Hashed(<<"a", "b">>, FALSE)),
      User("alice", Hashed(<<"a", "b">>, TRUE)),
      User("alice", Garbage(FALSE)),
      User("Alice", Hashed(<<"b">>, FALSE)) }

UniqueUsernames(S) == \A u, v \in S : u.username = v.username => u = v

NoClient == [token |-> NoHeader, issued_at |-> 0, username |-> ""]
NoRequest == Request("", "", NoHeader, "", <<>>, Query0)
NoResponse == [status_code |-> 0, content |-> EmptyDict]

\* The workers that serve requests side by side.
Workers == {"w1", "w2"}

IdleSlot ==
    [phase |-> "idle", request |-> NoRequest, endpoint |-> "",
     current_user |-> NoTokenData, session |-> "none", response |-> NoResponse,
     queries |-> <<>>, log |-> <<>>]

\* ---------------------------------------------------------------- requests
Methods == {"GET", "POST"}
Paths == {rt[2] : rt \in Routes} \cup {"/feedback"}

LimitValues == {Absent, Val(0), Val(100), Val(101)}
SkipValues == {Absent, Val(-1)}

Untyped == [Query0 EXCEPT !.typed = FALSE]

Low(skip, limit, min_score, max_score) ==
    [typed |-> TRUE, skip |-> skip, limit |-> limit,
     min_score |-> min_score, max_score |-> max_score]

\* /low-similarity: every check passing, and each check failing, alone and
\* together with a later one; a score that is no number
LowSimilarityQueries ==
    { Query0,
      Low(Val(0), Val(100), Val(0), Val(1)),
      Low(Absent, Absent, Val(1), Val(1)),
      Low(Val(-1), Absent, Absent, Absent),
      Low(Val(-1), Val(101), Val(2), Val(-1)),
      Low(Absent, Val(0), Absent, Absent),
      Low(Absent, Val(101), Val(-1), Absent),
      Low(Absent, Absent, Val(-1), Absent),
      Low(Absent, Absent, Val(2), Val(2)),
      Low(Absent, Absent, Absent, Val(-1)),
      Low(Absent, Absent, Val(0), Val(2)),
      Low(Absent, Absent, Val(1), Val(0)),
      Low(Absent, Absent, NaN, Absent),
      Low(Absent, Absent, Val(2), NaN),
      Untyped }

Queries(path) ==
    CASE path \in {"/feedback/summary", "/no-result/summary"} ->
           {[Query0 EXCEPT !.limit = l] : l \in LimitValues} \cup {Untyped}
      [] path = "/qa-logs" ->
           {[Query0 EXCEPT !.limit = l, !.skip = s] : l \in LimitValues, s \in SkipValues}
           \cup {Untyped}
      [] path = "/low-similarity" -> LowSimilarityQueries
      [] OTHER -> {Query0}

\* What a client may put in the Authorization header: nothing, text that is
\* no token, a token signed with another key, or the token it was issued.
AuthHeaders ==
    {NoHeader, NotAToken, Token("alice", MaxTime + 1, OtherKey)}
    \cup (IF client.token.kind = "jwt" THEN {client.token} ELSE {})

AllRequests ==
    {Request("POST", "/login", NoHeader, u, pw, Query0) :
        u \in Usernames \cup {""}, pw \in Passwords}
    \cup UNION {{Request(rt[1], rt[2], a, "", <<>>, q) : a \in AuthHeaders, q \in Queries(rt[2])} :
                  rt \in {x \in Routes : x[3] # "login"}}
    \cup {Request(mp[1], mp[2], NoHeader, "", <<>>, Query0) :
            mp \in {x \in Methods \X Paths : x \notin {<<rt[1], rt[2]>> : rt \in Routes}}}

\* The requests that may arrive: any, once the server is free.
Requests == IF phase = "idle" THEN AllRequests ELSE {}

\* ----------------------------------------------------------------- actions
Init ==
    /\ users \in {S \in SUBSET UserRows : UniqueUsernames(S)}
    /\ now = 0
    /\ ACCESS_TOKEN_EXPIRE_MINUTES \in 1..MaxTtl
    /\ client = NoClient
    /\ phase = "idle"
    /\ request = NoRequest
    /\ endpoint = ""
    /\ current_user = NoTokenData
    /\ session = "none"
    /\ response = NoResponse
    /\ queries = <<>>
    /\ log = <<>>
    /\ slots = [w \in Workers |-> IdleSlot]

\* A request arrives: routing, then the dependencies and the parameters.  It
\* either reaches its endpoint function (phase "handler") or is answered by
\* an exception handler here.
Receive(r) ==
    LET m == match_route(r.method, r.path)
        d == solve_dependencies(m.value, r, now)
        h == exception_handlers(IF m.raised THEN m.exc ELSE d.exc)
        answered == m.raised \/ d.raised
    IN /\ phase = "idle"
       /\ request' = r
       /\ endpoint' = IF m.raised THEN "" ELSE m.value
       /\ phase' = IF answered THEN "done" ELSE "handler"
       /\ current_user' = IF answered THEN NoTokenData ELSE d.current_user
       /\ session' = IF m.raised \/ ~d.session_opened THEN "none"
                     ELSE IF d.raised THEN get_db_exit("open", TRUE) ELSE "open"
       /\ response' = IF answered THEN [status_code |-> h.status_code, content |-> h.content]
                      ELSE NoResponse
       /\ queries' = <<>>
       /\ log' = IF m.raised THEN h.log ELSE IF d.raised THEN d.log \o h.log ELSE d.log
       /\ UNCHANGED <<users, now, ACCESS_TOKEN_EXPIRE_MINUTES, client, slots>>

\* The endpoint function runs; db_ok says whether the store executes its
\* query.  What it returns is the 200 response, what it raises goes to the
\* exception handlers; the session is closed; a client that logged in keeps
\* the token.
Handle(db_ok) ==
    LET o == call_endpoint(endpoint, request, current_user, users, db_ok, now,
                           ACCESS_TOKEN_EXPIRE_MINUTES)
        h == exception_handlers(o.exc)
    IN /\ phase = "handler"
       /\ phase' = "done"
       /\ response' = IF o.raised THEN [status_code |-> h.status_code, content |-> h.content]
                      ELSE [status_code |-> 200, content |-> o.value]
       /\ queries' = o.queries
       /\ log' = IF o.raised THEN log \o o.log \o h.log ELSE log \o o.log
       /\ session' = get_db_exit(session, o.raised)
       /\ client' = IF endpoint = "login" /\ ~o.raised
                    THEN [token |-> o.value.data.access_token, issued_at |-> now,
                          username |-> request.username]
                    ELSE client
       /\ users' = commit(users, o.queries)
       /\ UNCHANGED <<now, ACCESS_TOKEN_EXPIRE_MINUTES, request, endpoint,
                      current_user, slots>>

\* The response has been sent; the next request may arrive.
Reply ==
    /\ phase = "done"
    /\ phase' = "idle"
    /\ request' = NoRequest
    /\ endpoint' = ""
    /\ current_user' = NoTokenData
    /\ session' = "none"
    /\ response' = NoResponse
    /\ queries' = <<>>
    /\ log' = <<>>
    /\ UNCHANGED <<users, now, ACCESS_TOKEN_EXPIRE_MINUTES, client, slots>>

\* Time passes.
Tick ==
    /\ now < MaxTime
    /\ now' = now + 1
    /\ UNCHANGED <<users, ACCESS_TOKEN_EXPIRE_MINUTES, client, phase, request, endpoint,
                   current_user, session, response, queries, log, slots>>

\* A user row is removed from the table (rows are managed outside the API).
DeleteUser(u) ==
    /\ u \in users
    /\ users' = users \ {u}
    /\ UNCHANGED <<now, ACCESS_TOKEN_EXPIRE_MINUTES, client, phase, request, endpoint,
                   current_user, session, response, queries, log, slots>>

Next ==
    \/ \E r \in Requests : Receive(r)
    \/ \E db_ok \in BOOLEAN : Handle(db_ok)
    \/ Reply
    \/ Tick
    \/ \E u \in UserRows : DeleteUser(u)

Spec == Init /\ [][Next]_vars

\* Normal operation: the store executes every query.
NextStoreAnswers ==
    \/ \E r \in Requests : Receive(r)
    \/ Handle(TRUE)
    \/ Reply
    \/ Tick
    \/ \E u \in UserRows : DeleteUser(u)

SpecStoreAnswers == Init /\ [][NextStoreAnswers]_vars

\* ------------------------------------------------------------- concurrency
\* Requests served side by side, each by a worker of its own: the steps of
\* one request (SlotReceive, SlotHandle, SlotReply) interleave with those of
\* the other.  The requests: a login that succeeds and one without its form
\* fields; /qa-logs without a token; a path without a route; with the
\* client's token each of the six protected endpoints, /qa-logs also with a
\* limit out of range.
ConcurrentRequests ==
    { Request("POST", "/login", NoHeader, "alice", <<"a", "b">>, Query0),
      Request("POST", "/login", NoHeader, "", <<>>, Query0),
      Request("GET", "/qa-logs", NoHeader, "", <<>>, Query0),
      Request("GET", "/feedback", NoHeader, "", <<>>, Query0) }
    \cup (IF client.token.kind = "jwt"
          THEN { Request(rt[1], rt[2], client.token, "", <<>>, Query0) :
                   rt \in {x \in Routes : x[3] # "login"} }
               \cup { Request("GET", "/qa-logs", client.token, "", <<>>,
                              [Query0 EXCEPT !.limit = Val(101)]) }
          ELSE {})

\* The workers start with alice in the table and tokens that live a minute.
InitConcurrent ==
    /\ Init
    /\ users = {User("alice", Hashed(<<"a", "b">>, TRUE))}
    /\ ACCESS_TOKEN_EXPIRE_MINUTES = 1

\* Receive, by worker w.
SlotReceive(w, r) ==
    LET m == match_route(r.method, r.path)
        d == solve_dependencies(m.value, r, now)
        h == exception_handlers(IF m.raised THEN m.exc ELSE d.exc)
        answered == m.raised \/ d.raised
    IN /\ slots[w].phase = "idle"
       /\ slots' = [slots EXCEPT ![w] =
            [phase |-> IF answered THEN "done" ELSE "handler",
             request |-> r,
             endpoint |-> IF m.raised THEN "" ELSE m.value,
             current_user |-> IF answered THEN NoTokenData ELSE d.current_user,
             session |-> IF m.raised \/ ~d.session_opened THEN "none"
                         ELSE IF d.raised THEN get_db_exit("open", TRUE) ELSE "open",
             response |-> IF answered
                          THEN [status_code |-> h.status_code, content |-> h.content]
                          ELSE NoResponse,
             queries |-> <<>>,
             log |-> IF m.raised THEN h.log ELSE IF d.raised THEN d.log \o h.log ELSE d.log]]
       /\ UNCHANGED <<users, now, ACCESS_TOKEN_EXPIRE_MINUTES, client, phase, request,
                      endpoint, current_user, session, response, queries, log>>

\* Handle, by worker w.
SlotHandle(w, db_ok) ==
    LET s == slots[w]
        o == call_endpoint(s.endpoint, s.request, s.current_user, users, db_ok, now,
                           ACCESS_TOKEN_EXPIRE_MINUTES)
        h == exception_handlers(o.exc)
    IN /\ s.phase = "handler"
       /\ slots' = [slots EXCEPT ![w] =
            [s EXCEPT !.phase = "done",
                      !.response = IF o.raised
                                   THEN [status_code |-> h.status_code, content |-> h.content]
                                   ELSE [status_code |-> 200, content |-> o.value],
                      !.queries = o.queries,
                      !.log = IF o.raised THEN s.log \o o.log \o h.log ELSE s.log \o o.log,
                      !.session = get_db_exit(s.session, o.raised)]]
       /\ users' = commit(users, o.queries)
       /\ client' = IF s.endpoint = "login" /\ ~o.raised
                    THEN [token |-> o.value.data.access_token, issued_at |-> now,
                          username |-> s.request.username]
                    ELSE client
       /\ UNCHANGED <<now, ACCESS_TOKEN_EXPIRE_MINUTES, phase, request, endpoint,
                      current_user, session, response, queries, log>>

\* Reply, by worker w.
SlotReply(w) ==
    /\ slots[w].phase = "done"
    /\ slots' = [slots EXCEPT ![w] = IdleSlot]
    /\ UNCHANGED <<users, now, ACCESS_TOKEN_EXPIRE_MINUTES, client, phase, request,
                   endpoint, current_user, session, response, queries, log>>

NextConcurrent ==
    \/ \E w \in Workers : \E r \in ConcurrentRequests : SlotReceive(w, r)
    \/ \E w \in Workers : \E db_ok \in BOOLEAN : SlotHandle(w, db_ok)
    \/ \E w \in Workers : SlotReply(w)
    \/ Tick
    \/ \E u \in UserRows : DeleteUser(u)

SpecConcurrent == InitConcurrent /\ [][NextConcurrent]_vars

\* ------------------------------------------------------------------ claims
\* Steps of one request: it arrives (and is routed, gated and validated),
\* its endpoint function runs.
Received == phase = "idle" /\ phase' # "idle"
Handled == phase = "handler" /\ phase' = "done"

\* The token is signed with the server's secret and has not expired at t.
TokenAccepted(auth, t) == auth.kind = "jwt" /\ auth.key = SECRET_KEY /\ t < auth.exp

ProtectedEndpoints ==
    { <<"GET", "/me">>, <<"POST", "/logout">>, <<"GET", "/feedback/summary">>,
      <<"GET", "/qa-logs">>, <<"GET", "/low-similarity">>, <<"GET", "/no-result/summary">> }

Protected(r) == <<r.method, r.path>> \in ProtectedEndpoints

Unauthenticated(resp) ==
    /\ resp.status_code = 401
    /\ resp.content.success = FALSE
    /\ resp.content.error.code = 401

\* C1: a request to a protected endpoint whose bearer token is missing or
\* fails verification is answered 401 on arrival, whatever its query
\* parameters: its endpoint function never runs, no store query is executed
\* for it and no session stays open.
C1_GateBeforeWork ==
    /\ [][(Received /\ Protected(request') /\ ~TokenAccepted(request'.auth, now))
            => (/\ phase' = "done"
                /\ Unauthenticated(response')
                /\ queries' = <<>>
                /\ session' # "open")]_vars
    /\ [](phase = "done" /\ Protected(request) /\ response.status_code = 401
            => queries = <<>>)

\* An expired token and a negative skip: 401, not 400.
C1_Witness ==
    /\ phase = "done"
    /\ request.path = "/low-similarity"
    /\ request.auth.kind = "jwt" /\ request.auth.key = SECRET_KEY
    /\ request.q.skip = Val(-1)
    /\ response.status_code = 401
    /\ queries = <<>>

\* When the client's token expires: issue time + ttl.
ClientExpiry == client.issued_at + ACCESS_TOKEN_EXPIRE_MINUTES * TicksPerMinute

\* C2: the token issued at login for subject s verifies to s at every
\* instant before issue time + ttl and is rejected as expired from then on;
\* GET /me with it is answered 401 from then on and reaches its endpoint
\* function before.
C2_TokenLifetime ==
    /\ [](client.token.kind = "jwt" =>
            LET v == verify(client.token, now)
            IN /\ now < ClientExpiry => v.ok /\ v.subject = client.username
               /\ now >= ClientExpiry => ~v.ok /\ v.failure = "expired")
    /\ [][(/\ Received
            /\ request'.method = "GET" /\ request'.path = "/me"
            /\ client.token.kind = "jwt" /\ request'.auth = client.token)
            => IF now >= ClientExpiry
               THEN phase' = "done" /\ Unauthenticated(response')
               ELSE phase' = "handler" /\ current_user'.username = client.username]_vars

\* GET /me with the issued token, at or after its expiry: 401.
C2_Witness ==
    /\ phase = "done"
    /\ request.path = "/me"
    /\ client.token.kind = "jwt" /\ request.auth = client.token
    /\ response.status_code = 401

\* The users table holds a row with exactly this username whose stored hash
\* is a bcrypt hash of this password.
Registered(username, password) ==
    \E u \in users : /\ u.username = username
                      /\ u.password.kind = "bcrypt"
                      /\ u.password.pw = password

\* 200 with {success: true, data: {access_token, token_type: "bearer"}}, the
\* token signed by the server and carrying this username as its subject.
LoginSuccess(resp, username) ==
    /\ resp.status_code = 200
    /\ resp.content.success = TRUE
    /\ resp.content.data.token_type = "bearer"
    /\ resp.content.data.access_token.kind = "jwt"
    /\ resp.content.data.access_token.key = SECRET_KEY
    /\ resp.content.data.access_token.sub = username

\* The response carries no token.
NoToken(resp) == resp.status_code # 200 /\ "data" \notin DOMAIN resp.content

LoginHandled == Handled /\ endpoint = "login"

WrongCredentials ==
    [status_code |-> 401,
     content |-> [success |-> FALSE,
                  error |-> [code |-> 401, message |-> "Incorrect username or password"]]]

MeHandled == Handled /\ endpoint = "get_current_user_info"

MeSuccess(resp, username) ==
    /\ resp.status_code = 200
    /\ resp.content.success = TRUE
    /\ resp.content.data.username = username
    /\ resp.content.data.is_authenticated = TRUE

\* C5: while the store answers, GET /me with a token that verifies answers
\* 200 with the token's subject and is_authenticated true when a row with
\* that username exists at request time and 404 when it does not; the one
\* query it executes is the lookup by that username.
C5_MeChecksTheRow ==
    [][MeHandled =>
        /\ queries' = <<Query("get_user", [username |-> current_user.username], TRUE)>>
        /\ current_user.username = request.auth.sub
        /\ IF \E u \in users : u.username = current_user.username
           THEN MeSuccess(response', current_user.username)
           ELSE response'.status_code = 404]_vars

\* The row was deleted after the token was issued: 404.
C5_Witness ==
    /\ phase = "done"
    /\ request.path = "/me"
    /\ client.token.kind = "jwt" /\ request.auth = client.token
    /\ response.status_code = 404

\* The request was turned away as unauthenticated.
Rejected(ph, resp) == ph = "done" /\ resp.status_code = 401

\* C6: POST /logout with a token that verifies reaches its endpoint function
\* and is answered 200; the call executes no query and changes neither the
\* users table nor the client's token; and a token the server signed is
\* turned away by a protected endpoint exactly when its expiry instant has
\* come, whatever was called before.
C6_LogoutInvalidatesNothing ==
    /\ [][(/\ Received
            /\ request'.method = "POST" /\ request'.path = "/logout"
            /\ TokenAccepted(request'.auth, now))
            => phase' = "handler"]_vars
    /\ [][(Handled /\ endpoint = "logout")
            => /\ response'.status_code = 200
               /\ response'.content.success = TRUE
               /\ response'.content.data.username = request.auth.sub
               /\ queries' = <<>>
               /\ UNCHANGED <<users, client, now, ACCESS_TOKEN_EXPIRE_MINUTES>>]_vars
    /\ [][(/\ Received
            /\ Protected(request')
            /\ request'.auth.kind = "jwt" /\ request'.auth.key = SECRET_KEY)
            => (Rejected(phase', response') <=> now >= request'.auth.exp)]_vars

\* A logout with the issued token, answered 200 while the client keeps it.
C6_Witness ==
    /\ phase = "done"
    /\ request.path = "/logout"
    /\ client.token.kind = "jwt" /\ request.auth = client.token
    /\ response.status_code = 200

\* C7: every response that is not 2xx has the body
\* {success: false, error: {code, message, details?}} with error.code equal
\* to its status.
C7_ErrorEnvelope ==
    (phase = "done" /\ response.status_code \notin 200..299) =>
        /\ DOMAIN response.content = {"success", "error"}
        /\ response.content.success = FALSE
        /\ {"code", "message"} \subseteq DOMAIN response.content.error
        /\ DOMAIN response.content.error \subseteq {"code", "message", "details"}
        /\ response.content.error.code = response.status_code

\* C8: a 500 carries a generic message only; the exception text and the
\* stack trace are in the log, not in the body.
C8_NoDiagnosticsInBody ==
    (phase = "done" /\ response.status_code = 500) =>
        /\ DOMAIN response.content.error = {"code", "message"}
        /\ response.content.error.message
              \in {"Internal Server Error", "Authentication error", "Error validating password"}

\* C9: while the store answers, a login for a user whose stored hash is no
\* bcrypt hash ends in 500
\* with the detail "Error validating password", not in the 401 of a wrong
\* password, and returns no token.
C9_HashError ==
    [][(/\ LoginHandled
        /\ \E u \in users : u.username = request.username /\ u.password.kind = "garbage")
        => /\ response'.status_code = 500
           /\ response'.content.error.message = "Error validating password"
           /\ NoToken(response')]_vars

\* C10: a request without credentials to a feedback or QA-log path (POST
\* /feedback, GET /feedback/summary, POST /qa-logs, GET /qa-logs) is
\* answered 401.
C10_NoCredentials401 ==
    (/\ phase = "done"
     /\ request.auth = NoHeader
     /\ <<request.method, request.path>> \in
            { <<"POST", "/feedback">>, <<"GET", "/feedback/summary">>,
              <<"POST", "/qa-logs">>, <<"GET", "/qa-logs">> })
        => response.status_code = 401

\* The sessions that are open, over all workers.
OpenSessions == {w \in Workers : slots[w].session = "open"}

\* The request of worker w has called get_db.
Acquired(w) == slots[w].session # "none"

\* C11: a request that acquired a data-store session holds it while its
\* endpoint function is pending and has released it when it ends, however it
\* ends (200, a 4xx of the handler or of the token gate, a 422, a query that
\* raised); the release is a step of that request alone, closes that session
\* only and is never undone; with no request in flight no session is open.
C11_SessionsReleased ==
    /\ [](\A w \in Workers :
            /\ slots[w].phase = "idle" => ~Acquired(w)
            /\ slots[w].phase = "handler" =>
                  (w \in OpenSessions <=> Index(Dependencies(slots[w].endpoint), "get_db") > 0)
            /\ slots[w].phase = "done" => w \notin OpenSessions)
    /\ []((\A w \in Workers : slots[w].phase = "idle") => OpenSessions = {})
    /\ [][\A w \in Workers :
            /\ (w \in OpenSessions /\ slots'[w].session # "open")
                  => /\ slots'[w].session = "closed"
                     /\ slots'[w].phase = "done"
                     /\ \A v \in Workers \ {w} : slots'[v] = slots[v]
            /\ slots[w].session = "closed" => slots'[w].session \in {"closed", "none"}]_vars

\* A query raised and the request ended in 500 with its session closed,
\* while the other worker's request still holds its own.
C11_Witness ==
    \E w, v \in Workers :
        /\ slots[w].phase = "done"
        /\ slots[w].response.status_code = 500
        /\ \E i \in DOMAIN slots[w].queries : ~slots[w].queries[i].ok
        /\ slots[w].session = "closed"
        /\ v \in OpenSessions

\* The response an endpoint function's outcome becomes.
ResponseOf(o) ==
    IF o.raised
    THEN LET h == exception_handlers(o.exc)
         IN [status_code |-> h.status_code, content |-> h.content]
    ELSE [status_code |-> 200, content |-> o.value]

\* The response to r when it is answered on arrival at time t.
OnArrival(r, t) ==
    LET m == match_route(r.method, r.path)
        d == solve_dependencies(m.value, r, t)
    IN ResponseOf(IF m.raised THEN m ELSE Exc(d.exc, <<>>, <<>>))

\* The response to r when its endpoint function runs at time t over the
\* table users_, the store answering (db_ok) or not.
OnHandling(r, users_, t, db_ok) ==
    ResponseOf(call_endpoint(match_route(r.method, r.path).value, r, TokenData(r.auth.sub),
                             users_, db_ok, t, ACCESS_TOKEN_EXPIRE_MINUTES))

\* C12: a step of a request, whichever endpoint it is for and whatever the
\* other worker is doing, leaves the users table, the clock, the settings
\* and the other worker's request as they are (a login that issues a token
\* included: the token goes to the client and nowhere else); and its
\* response is determined by the request itself, the table and the time of
\* that step and whether the store answers.
C12_NoServerSideState ==
    [][\A w \in Workers : slots'[w] # slots[w] =>
        /\ users' = users
        /\ now' = now
        /\ ACCESS_TOKEN_EXPIRE_MINUTES' = ACCESS_TOKEN_EXPIRE_MINUTES
        /\ \A v \in Workers \ {w} : slots'[v] = slots[v]
        /\ (slots[w].phase = "idle" /\ slots'[w].phase = "done")
              => slots'[w].response = OnArrival(slots'[w].request, now)
        /\ slots[w].phase = "handler"
              => \E db_ok \in BOOLEAN :
                    slots'[w].response = OnHandling(slots[w].request, users, now, db_ok)]_vars

\* A login has just issued a token while the other worker's request, let in
\* with an earlier token, is waiting for its endpoint function.
C12_Witness ==
    \E w, v \in Workers :
        /\ slots[w].phase = "done"
        /\ slots[w].endpoint = "login"
        /\ slots[w].response.status_code = 200
        /\ LoginSuccess(slots[w].response, slots[w].request.username)
        /\ client.token = slots[w].response.content.data.access_token
        /\ slots[v].phase = "handler"
        /\ slots[v].request.auth.kind = "jwt"
        /\ slots[v].request.auth # client.token

ListingEndpoints ==
    {"get_feedback_summary", "get_qa_logs", "get_low_similarity_queries",
     "get_no_result_summary"}

\* The checks the claim names, on the parameters as given.
SkipOk(e, q) ==
    (e \in {"get_qa_logs", "get_low_similarity_queries"} /\ q.skip.given) => q.skip.v >= 0
LimitOk(q) == q.limit.given => (1 <= q.limit.v /\ q.limit.v <= 100)
InUnit(p) == ~p.nan /\ 0 <= p.v /\ p.v <= 1
MinOk(e, q) == (e = "get_low_similarity_queries" /\ q.min_score.given) => InUnit(q.min_score)
MaxOk(e, q) == (e = "get_low_similarity_queries" /\ q.max_score.given) => InUnit(q.max_score)
OrderOk(e, q) ==
    (e = "get_low_similarity_queries" /\ q.min_score.given /\ q.max_score.given)
        => q.min_score.v <= q.max_score.v

ChecksPass(e, q) ==
    SkipOk(e, q) /\ LimitOk(q) /\ MinOk(e, q) /\ MaxOk(e, q) /\ OrderOk(e, q)

FirstFailing(e, q) ==
    IF ~SkipOk(e, q) THEN "Skip value cannot be negative"
    ELSE IF ~LimitOk(q) THEN "Limit must be between 1 and 100"
    ELSE IF ~MinOk(e, q) THEN "Minimum score must be between 0 and 1"
    ELSE IF ~MaxOk(e, q) THEN "Maximum score must be between 0 and 1"
    ELSE "Minimum score cannot be greater than maximum score"

ListingHandled == Handled /\ endpoint \in ListingEndpoints

\* C13: when the endpoint function of a listing or summary endpoint runs,
\* it executes its store query if and only if every parameter check passes
\* (limit in 1..100, skip not negative, each given score within [0, 1], the
\* minimum not above the maximum); otherwise it answers 400 with the
\* message of the first failing check and executes no query; no query has a
\* limit above 100 or a negative offset.
C13_ChecksBeforeQuery ==
    [][ListingHandled =>
        /\ queries' # <<>> <=> ChecksPass(endpoint, request.q)
        /\ ~ChecksPass(endpoint, request.q)
              => /\ response'.status_code = 400
                 /\ response'.content.error.message = FirstFailing(endpoint, request.q)
        /\ \A i \in DOMAIN queries' :
              /\ queries'[i].args.limit <= 100
              /\ "skip" \in DOMAIN queries'[i].args => queries'[i].args.skip >= 0]_vars

====
